---- MODULE Spec2Model ----
(***************************************************************************)
(* Model of the validated primitives of imap-types (rfc3501/core.rs), of   *)
(* the COMPRESS parser of imap-codec (extensions/compress.rs) and of the   *)
(* greeting round trip exercised by fuzz_targets/greeting_to_bytes_and_back.*)
(*                                                                         *)
(* A text (Rust &str / String) is a sequence of Unicode code points; its   *)
(* bytes() are its UTF-8 encoding.  An octet sequence (Rust &[u8] /        *)
(* Vec<u8>) handed to Literal is kept run-length encoded, a sequence of    *)
(* runs [byte, hi, lo] standing for hi * 2^16 + lo copies of byte, so that *)
(* sequences longer than a 32-bit counter can be enumerated.               *)
(***************************************************************************)
EXTENDS Integers, Sequences, FiniteSets, TLC

VARIABLES op, text, octets, input, greeting, res, out, store

vars == <<op, text, octets, input, greeting, res, out, store>>

(***************************************************************************)
(* Bounds of the model.                                                    *)
(***************************************************************************)
MaxLen == 3
MaxRuns == 2

\* The characters the model names, by code point.
Ch == [NUL |-> 0, LF |-> 10, CR |-> 13, SP |-> 32, DQUOTE |-> 34, PLUS |-> 43,
       QMARK |-> 63, A |-> 65, BACKSLASH |-> 92, RBRACKET |-> 93, LBRACKET |-> 91,
       SUPER1 |-> 185]

\* Code points the texts are drawn from; U+00B9 stands for the non-ASCII ones.
TextChars == {Ch.NUL, Ch.LF, Ch.CR, Ch.SP, Ch.DQUOTE, Ch.PLUS, Ch.A, Ch.BACKSLASH,
              Ch.RBRACKET, Ch.SUPER1}

RECURSIVE SeqsUpTo(_, _)
SeqsUpTo(S, n) ==
    IF n = 0 THEN {<<>>}
    ELSE LET shorter == SeqsUpTo(S, n - 1)
         IN  shorter \cup {Append(s, c) : s \in {t \in shorter : Len(t) = n - 1}, c \in S}

Texts == SeqsUpTo(TextChars, MaxLen)

\* Octet runs: a run of hi * Limb + lo copies of one octet.
Limb == 2^16
OctetBytes == {0, 13, 65, 255}
RunCounts == {<<0, 1>>, <<0, 2>>, <<Limb - 1, Limb - 1>>, <<Limb, 0>>}
Runs == {[byte |-> b, hi |-> n[1], lo |-> n[2]] : b \in OctetBytes, n \in RunCounts}
OctetSeqs == SeqsUpTo(Runs, MaxRuns)

\* The length of an octet sequence, as a two-limb number [hi, lo].
RECURSIVE OctetLen(_)
OctetLen(o) ==
    IF o = <<>> THEN [hi |-> 0, lo |-> 0]
    ELSE LET rest == OctetLen(Tail(o))
             lo == Head(o).lo + rest.lo
         IN  [hi |-> Head(o).hi + rest.hi + (lo \div Limb), lo |-> lo % Limb]

\* len > u32::MAX = 2^32 - 1
ExceedsU32(len) == len.hi >= Limb

(***************************************************************************)
(* str::bytes(): the UTF-8 encoding of a text.                             *)
(***************************************************************************)
Utf8Char(c) ==
    IF c < 128 THEN <<c>>
    ELSE IF c < 2048 THEN <<192 + (c \div 64), 128 + (c % 64)>>
    ELSE <<224 + (c \div 4096), 128 + ((c \div 64) % 64), 128 + (c % 64)>>

RECURSIVE Utf8Bytes(_)
Utf8Bytes(s) == IF s = <<>> THEN <<>> ELSE Utf8Char(Head(s)) \o Utf8Bytes(Tail(s))

\* A plain byte sequence as an octet sequence (runs of one octet each).
AsOctets(bytes) == [i \in DOMAIN bytes |-> [byte |-> bytes[i], hi |-> 0, lo |-> 1]]

(***************************************************************************)
(* utils::indicators: the octet predicates of RFC 3501.                    *)
(***************************************************************************)
is_char(b) == b >= 1 /\ b <= 127
is_ctl(b) == b <= 31 \/ b = 127
is_list_wildcards(b) == b \in {37, 42}
is_quoted_specials(b) == b \in {Ch.DQUOTE, Ch.BACKSLASH}
is_resp_specials(b) == b = Ch.RBRACKET
is_atom_specials(b) ==
    \/ b \in {40, 41, 123, Ch.SP}
    \/ is_ctl(b)
    \/ is_list_wildcards(b)
    \/ is_quoted_specials(b)
    \/ is_resp_specials(b)
is_atom_char(b) == is_char(b) /\ ~is_atom_specials(b)
is_astring_char(b) == is_atom_char(b) \/ is_resp_specials(b)
is_char8(b) == b >= 1 /\ b <= 255
is_text_char(b) == (b >= 1 /\ b <= 9) \/ (b >= 11 /\ b <= 12) \/ (b >= 14 /\ b <= 127)
is_any_text_char_except_quoted_specials(b) == is_text_char(b) /\ ~is_quoted_specials(b)

\* The elements an iterator over a sequence yields (bytes(), chars(), iter()).
Range(s) == {s[i] : i \in DOMAIN s}

(***************************************************************************)
(* Result<T, ()>.                                                          *)
(***************************************************************************)
Unit == <<>>
Ok(v) == [ok |-> TRUE, val |-> v]
Err(e) == [ok |-> FALSE, err |-> e]
\* No operation has returned yet.
NoResult == [ok |-> FALSE, err |-> <<"none">>]

(***************************************************************************)
(* The validated primitives (rfc3501/core.rs).  A value is its carrier     *)
(* (inner) together with the Cow variant holding it.                       *)
(***************************************************************************)

\* Atom
Atom_verify(value) == value # <<>> /\ \A b \in Range(Utf8Bytes(value)) : is_atom_char(b)

\* An Atom constructor whose error names the predicate and the first rejected offset.
Atom_try_from_str_located(value) ==
    IF Atom_verify(value)
    THEN Ok([type |-> "Atom", cow |-> "Borrowed", inner |-> value])
    ELSE Err(<<"ATOM-CHAR",
               IF value = <<>> THEN 0
               ELSE CHOOSE i \in 0..(Len(Utf8Bytes(value)) - 1) :
                        /\ ~is_atom_char(Utf8Bytes(value)[i + 1])
                        /\ \A j \in 0..(i - 1) : is_atom_char(Utf8Bytes(value)[j + 1])>>)

Atom_try_from_str(value) ==
    IF Atom_verify(value)
    THEN Ok([type |-> "Atom", cow |-> "Borrowed", inner |-> value])
    ELSE Err(Unit)

AtomExt_verify(value) == value # <<>> /\ \A b \in Range(Utf8Bytes(value)) : is_astring_char(b)

\* A copy of the AtomExt constructor left under Atom: checks ASTRING-CHAR.
Atom_try_from_String_astring(value) ==
    IF AtomExt_verify(value)
    THEN Ok([type |-> "Atom", cow |-> "Owned", inner |-> value])
    ELSE Err(Unit)

Atom_try_from_String(value) ==
    IF Atom_verify(value)
    THEN Ok([type |-> "Atom", cow |-> "Owned", inner |-> value])
    ELSE Err(Unit)


AtomExt_try_from_str(value) ==
    IF AtomExt_verify(value)
    THEN Ok([type |-> "AtomExt", cow |-> "Borrowed", inner |-> value])
    ELSE Err(Unit)

AtomExt_try_from_String(value) ==
    IF AtomExt_verify(value)
    THEN Ok([type |-> "AtomExt", cow |-> "Owned", inner |-> value])
    ELSE Err(Unit)

\* Literal
\* A verifier that also bounds the length by the 32-bit octet counter.
Literal_verify_bounded(bytes) ==
    (\A r \in Range(bytes) : is_char8(r.byte)) /\ ~ExceedsU32(OctetLen(bytes))

Literal_verify(bytes) == \A r \in Range(bytes) : is_char8(r.byte)

Literal_try_from_slice(value) ==
    IF Literal_verify(value)
    THEN Ok([type |-> "Literal", cow |-> "Borrowed", inner |-> value])
    ELSE Err(Unit)

\* The owned constructor without the call of verify.
Literal_try_from_Vec_unverified(value) ==
    Ok([type |-> "Literal", cow |-> "Owned", inner |-> value])

Literal_try_from_Vec(value) ==
    IF Literal_verify(value)
    THEN Ok([type |-> "Literal", cow |-> "Owned", inner |-> value])
    ELSE Err(Unit)

\* unsafe: the caller guarantees that the octets contain no 0x00.
Literal_new_unchecked(cow, inner) == [type |-> "Literal", cow |-> cow, inner |-> inner]

\* Deref: read access to the octets.
Literal_deref(self) == self.inner

\* Quoted
Quoted_verify(value) == \A c \in Range(value) : c < 128 /\ is_text_char(c % 256)

Quoted_try_from_str(value) ==
    IF Quoted_verify(value)
    THEN Ok([type |-> "Quoted", cow |-> "Borrowed", inner |-> value])
    ELSE Err(Unit)

Quoted_try_from_String(value) ==
    IF Quoted_verify(value)
    THEN Ok([type |-> "Quoted", cow |-> "Owned", inner |-> value])
    ELSE Err(Unit)

\* Tag
Tag_verify(value) == value # <<>> /\ \A c \in Range(Utf8Bytes(value)) : is_astring_char(c) /\ c # Ch.PLUS

Tag_try_from_str(value) ==
    IF Tag_verify(value)
    THEN Ok([type |-> "Tag", cow |-> "Borrowed", inner |-> value])
    ELSE Err(Unit)

Tag_try_from_String(value) ==
    IF Tag_verify(value)
    THEN Ok([type |-> "Tag", cow |-> "Owned", inner |-> value])
    ELSE Err(Unit)

\* unsafe: the caller guarantees Tag_verify.
Tag_new_unchecked(cow, inner) == [type |-> "Tag", cow |-> cow, inner |-> inner]

\* The length of the buffer Tag::random fills.
RandomTagLen == 8

\* Samples of every printable ASCII character.
Alphanumeric_printable == 33..126

\* rand::distributions::Alphanumeric samples a-z, A-Z and 0-9 as u8.
Alphanumeric == (48..57) \cup (65..90) \cup (97..122)

\* String::from_utf8_unchecked on the bytes sampled, all below 0x80: each
\* byte is the UTF-8 encoding of the character of that code point.
String_from_utf8_unchecked(bytes) == [i \in 1..Len(bytes) |-> bytes[i]]

\* Tag::random once the rng has filled the buffer.
Tag_random(buffer) == Tag_new_unchecked("Owned", String_from_utf8_unchecked(buffer))

\* Text
Text_verify(value) == value # <<>> /\ \A b \in Range(Utf8Bytes(value)) : is_text_char(b)

Text_try_from_str(value) ==
    IF Text_verify(value)
    THEN Ok([type |-> "Text", cow |-> "Borrowed", inner |-> value])
    ELSE Err(Unit)

Text_try_from_String(value) ==
    IF Text_verify(value)
    THEN Ok([type |-> "Text", cow |-> "Owned", inner |-> value])
    ELSE Err(Unit)

\* QuotedChar
QuotedChar_verify(c) ==
    IF c < 128
    THEN is_any_text_char_except_quoted_specials(c % 256) \/ c = Ch.BACKSLASH \/ c = Ch.DQUOTE
    ELSE FALSE

QuotedChar_try_from(value) ==
    IF QuotedChar_verify(value)
    THEN Ok([type |-> "QuotedChar", inner |-> value])
    ELSE Err(Unit)

\* NonEmptyVec
\* The conversion without the emptiness test.
NonEmptyVec_try_from_any(inner) == Ok([type |-> "NonEmptyVec", inner |-> inner])

NonEmptyVec_try_from(inner) ==
    IF inner # <<>> THEN Ok([type |-> "NonEmptyVec", inner |-> inner]) ELSE Err(Unit)

\* unsafe: the caller guarantees that inner is not empty.
NonEmptyVec_new_unchecked(inner) == [type |-> "NonEmptyVec", inner |-> inner]

\* Deref: read access to the elements.
NonEmptyVec_deref(self) == self.inner

\* IString
\* The literal form tried before the quoted form.
IString_try_from_str_literal_first(value) ==
    LET quoted == Quoted_try_from_str(value)
        literal == Literal_try_from_slice(AsOctets(Utf8Bytes(value)))
    IN  IF literal.ok
        THEN Ok([type |-> "IString", variant |-> "Literal", value |-> literal.val])
        ELSE IF quoted.ok
        THEN Ok([type |-> "IString", variant |-> "Quoted", value |-> quoted.val])
        ELSE Err(Unit)

IString_try_from_str(value) ==
    LET quoted == Quoted_try_from_str(value)
        literal == Literal_try_from_slice(AsOctets(Utf8Bytes(value)))
    IN  IF quoted.ok THEN Ok([type |-> "IString", variant |-> "Quoted", value |-> quoted.val])
        ELSE IF literal.ok
        THEN Ok([type |-> "IString", variant |-> "Literal", value |-> literal.val])
        ELSE Err(Unit)

IString_try_from_String(value) ==
    LET quoted == Quoted_try_from_String(value)
        literal == Literal_try_from_Vec(AsOctets(Utf8Bytes(value)))
    IN  IF quoted.ok THEN Ok([type |-> "IString", variant |-> "Quoted", value |-> quoted.val])
        ELSE IF literal.ok
        THEN Ok([type |-> "IString", variant |-> "Literal", value |-> literal.val])
        ELSE Err(Unit)

\* Charset
\* No fallback to the quoted form.
Charset_try_from_str_atom_only(value) ==
    LET atom == Atom_try_from_str(value)
    IN  IF atom.ok THEN Ok([type |-> "Charset", variant |-> "Atom", value |-> atom.val])
        ELSE Err(Unit)

Charset_try_from_str(value) ==
    LET atom == Atom_try_from_str(value)
        quoted == Quoted_try_from_str(value)
    IN  IF atom.ok THEN Ok([type |-> "Charset", variant |-> "Atom", value |-> atom.val])
        ELSE IF quoted.ok
        THEN Ok([type |-> "Charset", variant |-> "Quoted", value |-> quoted.val])
        ELSE Err(Unit)

Charset_try_from_String(value) ==
    LET atom == Atom_try_from_String(value)
        quoted == Quoted_try_from_String(value)
    IN  IF atom.ok THEN Ok([type |-> "Charset", variant |-> "Atom", value |-> atom.val])
        ELSE IF quoted.ok
        THEN Ok([type |-> "Charset", variant |-> "Quoted", value |-> quoted.val])
        ELSE Err(Unit)

\* AString
AString_try_from_str(value) ==
    LET atom == AtomExt_try_from_str(value)
        string == IString_try_from_str(value)
    IN  IF atom.ok THEN Ok([type |-> "AString", variant |-> "Atom", value |-> atom.val])
        ELSE IF string.ok
        THEN Ok([type |-> "AString", variant |-> "String", value |-> string.val])
        ELSE Err(Unit)

AString_try_from_String(value) ==
    LET atom == AtomExt_try_from_String(value)
        string == IString_try_from_String(value)
    IN  IF atom.ok THEN Ok([type |-> "AString", variant |-> "Atom", value |-> atom.val])
        ELSE IF string.ok
        THEN Ok([type |-> "AString", variant |-> "String", value |-> string.val])
        ELSE Err(Unit)

(***************************************************************************)
(* codec::Encode for the primitives a Charset holds: an atom is written as *)
(* its carrier, a quoted string between double quotes with '\' and '"'     *)
(* backslash-escaped.                                                      *)
(***************************************************************************)
\* Escapes the double quote only.
RECURSIVE escape_quoted_dquote_only(_)
escape_quoted_dquote_only(unescaped) ==
    IF unescaped = <<>> THEN <<>>
    ELSE (IF Head(unescaped) = Ch.DQUOTE
          THEN <<Ch.BACKSLASH, Head(unescaped)>>
          ELSE <<Head(unescaped)>>) \o escape_quoted_dquote_only(Tail(unescaped))

RECURSIVE escape_quoted(_)
escape_quoted(unescaped) ==
    IF unescaped = <<>> THEN <<>>
    ELSE (IF is_quoted_specials(Head(unescaped))
          THEN <<Ch.BACKSLASH, Head(unescaped)>>
          ELSE <<Head(unescaped)>>) \o escape_quoted(Tail(unescaped))

Atom_encode(atom) == Utf8Bytes(atom.inner)

Quoted_encode(quoted) ==
    <<Ch.DQUOTE>> \o Utf8Bytes(escape_quoted(quoted.inner)) \o <<Ch.DQUOTE>>

Charset_encode(cs) ==
    IF cs.variant = "Atom" THEN Atom_encode(cs.value) ELSE Quoted_encode(cs.value)

(***************************************************************************)
(* The constructors as operations: each is applied once to the drawn input.*)
(***************************************************************************)
Idle == <<>>

InitText ==
    /\ op = "init"
    /\ \/ text \in Texts /\ octets = <<>>
       \/ text = <<>> /\ octets \in OctetSeqs
    /\ input = Idle
    /\ greeting = Idle
    /\ res = NoResult
    /\ out = Idle
    /\ store = {}

Return(name, r) ==
    /\ op = "init"
    /\ op' = name
    /\ res' = r
    /\ UNCHANGED <<text, octets, input, greeting, out, store>>

AtomTryFromStr == Return("Atom::try_from(&str)", Atom_try_from_str(text))
AtomTryFromString == Return("Atom::try_from(String)", Atom_try_from_String(text))
AtomExtTryFromStr == Return("AtomExt::try_from(&str)", AtomExt_try_from_str(text))
AtomExtTryFromString == Return("AtomExt::try_from(String)", AtomExt_try_from_String(text))
QuotedTryFromStr == Return("Quoted::try_from(&str)", Quoted_try_from_str(text))
QuotedTryFromString == Return("Quoted::try_from(String)", Quoted_try_from_String(text))
TagTryFromStr == Return("Tag::try_from(&str)", Tag_try_from_str(text))
TagTryFromString == Return("Tag::try_from(String)", Tag_try_from_String(text))
TextTryFromStr == Return("Text::try_from(&str)", Text_try_from_str(text))
TextTryFromString == Return("Text::try_from(String)", Text_try_from_String(text))
LiteralTryFromSlice == Return("Literal::try_from(&[u8])", Literal_try_from_slice(octets))
LiteralTryFromVec == Return("Literal::try_from(Vec<u8>)", Literal_try_from_Vec(octets))
QuotedCharTryFrom ==
    /\ Len(text) = 1
    /\ Return("QuotedChar::try_from(char)", QuotedChar_try_from(text[1]))
\* A Vec<T> is drawn like a text: a sequence of elements.
NonEmptyVecTryFrom == Return("NonEmptyVec::try_from(Vec<T>)", NonEmptyVec_try_from(text))
IStringTryFromStr == Return("IString::try_from(&str)", IString_try_from_str(text))
IStringTryFromString == Return("IString::try_from(String)", IString_try_from_String(text))
CharsetTryFromStr == Return("Charset::try_from(&str)", Charset_try_from_str(text))
CharsetTryFromString == Return("Charset::try_from(String)", Charset_try_from_String(text))

\* cs.encode(&mut out) on a constructed Charset (test_charset).
CharsetEncode ==
    /\ op \in {"Charset::try_from(&str)", "Charset::try_from(String)"}
    /\ res.ok
    /\ op' = "Charset::encode"
    /\ out' = Charset_encode(res.val)
    /\ UNCHANGED <<text, octets, input, greeting, res, store>>

Next ==
    \/ AtomTryFromStr \/ AtomTryFromString
    \/ AtomExtTryFromStr \/ AtomExtTryFromString
    \/ QuotedTryFromStr \/ QuotedTryFromString
    \/ TagTryFromStr \/ TagTryFromString
    \/ TextTryFromStr \/ TextTryFromString
    \/ LiteralTryFromSlice \/ LiteralTryFromVec
    \/ QuotedCharTryFrom
    \/ NonEmptyVecTryFrom
    \/ IStringTryFromStr \/ IStringTryFromString
    \/ CharsetTryFromStr \/ CharsetTryFromString
    \/ CharsetEncode

Init == InitText

Spec == Init /\ [][Next]_vars

(***************************************************************************)
(* Properties of the validated primitives, checked under Spec.             *)
(***************************************************************************)
StrOps(type) == {type \o "::try_from(&str)", type \o "::try_from(String)"}
LiteralOps == {"Literal::try_from(&[u8])", "Literal::try_from(Vec<u8>)"}
PrimitiveOps ==
    StrOps("Atom") \cup StrOps("AtomExt") \cup StrOps("Quoted") \cup StrOps("Tag")
        \cup StrOps("Text") \cup LiteralOps \cup {"QuotedChar::try_from(char)"}
CheckedOps == PrimitiveOps \cup {"NonEmptyVec::try_from(Vec<T>)"}

\* What P::verify says of the input of the constructor that has returned.
VerifyOfInput ==
    CASE op \in StrOps("Atom") -> Atom_verify(text)
      [] op \in StrOps("AtomExt") -> AtomExt_verify(text)
      [] op \in StrOps("Quoted") -> Quoted_verify(text)
      [] op \in StrOps("Tag") -> Tag_verify(text)
      [] op \in StrOps("Text") -> Text_verify(text)
      [] op \in LiteralOps -> Literal_verify(octets)
      [] op = "QuotedChar::try_from(char)" -> QuotedChar_verify(text[1])

InputOfConstructor ==
    IF op \in LiteralOps THEN octets
    ELSE IF op = "QuotedChar::try_from(char)" THEN text[1]
    ELSE text

HasChar(s, S) == \E i \in DOMAIN s : s[i] \in S
NonAscii(s) == \E i \in DOMAIN s : s[i] >= 128

\* C1: for every input and every validated primitive, the checked constructor
\* (borrowed or owned) returns Ok exactly when verify holds of the input, and
\* the value it returns holds exactly the input as its carrier.
C1_VerifyIffTryFromOk ==
    op \in PrimitiveOps =>
        /\ res.ok <=> VerifyOfInput
        /\ res.ok => res.val.inner = InputOfConstructor

C1_Witness ==
    /\ op = "Atom::try_from(String)"
    /\ res.ok
    /\ Len(text) = 2
    /\ res.val.inner = text

\* C3: IString::try_from returns Quoted holding the text unchanged whenever
\* Quoted::verify holds; otherwise Literal holding the text's octets whenever
\* Literal::verify holds, which is when the text has CR, LF or a non-7-bit
\* character but no NUL; it fails only when neither form is valid, and never
\* returns Literal for a text that could be quoted.
C3_IStringSelectsQuotedFirst ==
    op \in StrOps("IString") =>
        LET quotable == Quoted_verify(text)
            literable == Literal_verify(AsOctets(Utf8Bytes(text)))
        IN  /\ quotable =>
                /\ res.ok
                /\ res.val.variant = "Quoted"
                /\ res.val.value.inner = text
            /\ (~quotable /\ literable) =>
                /\ res.ok
                /\ res.val.variant = "Literal"
                /\ res.val.value.inner = AsOctets(Utf8Bytes(text))
            /\ (~quotable /\ literable) <=>
                /\ HasChar(text, {Ch.CR, Ch.LF}) \/ NonAscii(text)
                /\ ~HasChar(text, {Ch.NUL})
            /\ ~res.ok <=> (~quotable /\ ~literable)
            /\ (res.ok /\ res.val.variant = "Literal") => ~quotable

C3_Witness ==
    /\ op = "IString::try_from(&str)"
    /\ res.ok
    /\ res.val.variant = "Literal"
    /\ HasChar(text, {Ch.CR})
    /\ HasChar(text, {Ch.SUPER1})

\* C4: Charset::try_from returns Atom for a valid atom, otherwise Quoted when
\* Quoted::verify holds (the empty text and texts with '"' or '\' included),
\* and fails for every text with CR, LF, NUL or a non-ASCII character; it
\* succeeds exactly when Quoted::verify holds.
C4_CharsetAtomElseQuoted ==
    op \in StrOps("Charset") =>
        /\ Atom_verify(text) =>
            /\ res.ok
            /\ res.val.variant = "Atom"
            /\ res.val.value.inner = text
        /\ (~Atom_verify(text) /\ Quoted_verify(text)) =>
            /\ res.ok
            /\ res.val.variant = "Quoted"
            /\ res.val.value.inner = text
        /\ (text = <<>> \/ HasChar(text, {Ch.DQUOTE, Ch.BACKSLASH})) =>
            (res.ok => res.val.variant = "Quoted")
        /\ text \in {<<>>, <<Ch.DQUOTE>>, <<Ch.BACKSLASH>>} => res.ok
        /\ (HasChar(text, {Ch.CR, Ch.LF, Ch.NUL}) \/ NonAscii(text)) => ~res.ok
        /\ res.ok <=> Quoted_verify(text)

C4_Witness ==
    /\ op = "Charset::try_from(&str)"
    /\ res.ok
    /\ res.val.variant = "Quoted"
    /\ HasChar(text, {Ch.DQUOTE})
    /\ HasChar(text, {Ch.A})

\* Removes the backslash in front of each escaped character.
RECURSIVE unescape_quoted(_)
unescape_quoted(escaped) ==
    IF escaped = <<>> THEN <<>>
    ELSE IF Head(escaped) = Ch.BACKSLASH /\ Len(escaped) >= 2
    THEN <<escaped[2]>> \o unescape_quoted(Tail(Tail(escaped)))
    ELSE <<Head(escaped)>> \o unescape_quoted(Tail(escaped))

Count(s, S) == Cardinality({i \in DOMAIN s : s[i] \in S})

\* Every '\' and '"' of the carrier is written behind one backslash, every other
\* character as it is, nothing else: e is the escaped form of s.
RECURSIVE EscapedFormOf(_, _)
EscapedFormOf(e, s) ==
    IF s = <<>> THEN e = <<>>
    ELSE IF Head(s) \in {Ch.DQUOTE, Ch.BACKSLASH}
    THEN /\ Len(e) >= 2
         /\ e[1] = Ch.BACKSLASH
         /\ e[2] = Head(s)
         /\ EscapedFormOf(Tail(Tail(e)), Tail(s))
    ELSE /\ Len(e) >= 1
         /\ e[1] = Head(s)
         /\ EscapedFormOf(Tail(e), Tail(s))

\* C5: a quoted value is written as a double quote, the carrier with every
\* '\' and '"' behind one backslash and every other character unchanged, and
\* a double quote; an atom as its carrier, without quotes.  The output of a
\* quoted carrier of length n with k quoted-specials has length n + k + 2 and
\* un-escapes to the carrier.
C5_QuotedEncodingEscapes ==
    op = "Charset::encode" =>
        IF res.val.variant = "Quoted"
        THEN LET carrier == res.val.value.inner
                 between == SubSeq(out, 2, Len(out) - 1)
             IN  /\ Len(out) = Len(carrier) + Count(carrier, {Ch.DQUOTE, Ch.BACKSLASH}) + 2
                 /\ out[1] = Ch.DQUOTE
                 /\ out[Len(out)] = Ch.DQUOTE
                 /\ EscapedFormOf(between, carrier)
                 /\ unescape_quoted(between) = carrier
        ELSE out = res.val.value.inner

C5_Witness ==
    /\ op = "Charset::encode"
    /\ res.val.variant = "Quoted"
    /\ text = <<Ch.BACKSLASH, Ch.DQUOTE, Ch.SP>>
    /\ out = <<Ch.DQUOTE, Ch.BACKSLASH, Ch.BACKSLASH, Ch.BACKSLASH, Ch.DQUOTE, Ch.SP,
               Ch.DQUOTE>>

\* The constructor an operation name stands for.
Checked(name, value) ==
    CASE name = "Atom::try_from(&str)" -> Atom_try_from_str(value)
      [] name = "Atom::try_from(String)" -> Atom_try_from_String(value)
      [] name = "AtomExt::try_from(&str)" -> AtomExt_try_from_str(value)
      [] name = "AtomExt::try_from(String)" -> AtomExt_try_from_String(value)
      [] name = "Quoted::try_from(&str)" -> Quoted_try_from_str(value)
      [] name = "Quoted::try_from(String)" -> Quoted_try_from_String(value)
      [] name = "Tag::try_from(&str)" -> Tag_try_from_str(value)
      [] name = "Tag::try_from(String)" -> Tag_try_from_String(value)
      [] name = "Text::try_from(&str)" -> Text_try_from_str(value)
      [] name = "Text::try_from(String)" -> Text_try_from_String(value)

TextOps ==
    StrOps("Atom") \cup StrOps("AtomExt") \cup StrOps("Quoted") \cup StrOps("Tag")
        \cup StrOps("Text")

\* The character class a constructor checks, and whether it takes a byte.
PredicateOf(name) ==
    CASE name \in StrOps("Atom") -> "ATOM-CHAR"
      [] name \in StrOps("AtomExt") -> "ASTRING-CHAR"
      [] name \in StrOps("Quoted") -> "7-bit TEXT-CHAR"
      [] name \in StrOps("Tag") -> "ASTRING-CHAR except +"
      [] name \in StrOps("Text") -> "TEXT-CHAR"

Takes(name, b) ==
    CASE name \in StrOps("Atom") -> is_atom_char(b)
      [] name \in StrOps("AtomExt") -> is_astring_char(b)
      [] name \in StrOps("Quoted") -> b < 128 /\ is_text_char(b)
      [] name \in StrOps("Tag") -> is_astring_char(b) /\ b # Ch.PLUS
      [] name \in StrOps("Text") -> is_text_char(b)

\* The offset of the first byte the constructor does not take (0 for a rejected
\* empty text).
RejectedOffset(name, value) ==
    LET bytes == Utf8Bytes(value)
        bad == {i \in DOMAIN bytes : ~Takes(name, bytes[i])}
    IN  IF bad = {} THEN 0 ELSE (CHOOSE i \in bad : \A j \in bad : i <= j) - 1

\* C9 as stated: the error of a rejection identifies the predicate that rejected
\* and the offset of the offending byte, so rejections by different predicates
\* or at different offsets carry different errors.
C9_ErrorIdentifiesRejection ==
    (op \in TextOps /\ ~res.ok) =>
        \A name \in TextOps, value \in Texts :
            LET other == Checked(name, value)
            IN  (/\ ~other.ok
                 /\ \/ PredicateOf(name) # PredicateOf(op)
                    \/ RejectedOffset(name, value) # RejectedOffset(op, text))
                => other.err # res.err

\* C9 amended: a rejecting checked constructor returns the unit error (), the
\* same value whatever the predicate and the offset.
C9_RejectionIsUnit ==
    op \in CheckedOps => (res.ok \/ res = Err(Unit))

C9_Witness ==
    /\ op = "Atom::try_from(&str)"
    /\ text = <<Ch.A, Ch.SP, Ch.A>>
    /\ RejectedOffset(op, text) = 1
    /\ ~res.ok

\* C10 as stated: Literal::verify and the checked constructors reject every
\* octet sequence longer than the largest value of the 32-bit counter, and
\* accept the empty sequence.
C10_LiteralLengthFitsCounter ==
    op \in LiteralOps =>
        /\ ExceedsU32(OctetLen(octets)) => (~res.ok /\ ~Literal_verify(octets))
        /\ octets = <<>> => (res.ok /\ Literal_verify(octets))

\* C10 amended: Literal::verify and the checked constructors accept exactly the
\* octet sequences without 0x00, whatever their length: the empty sequence, and
\* a NUL-free sequence longer than the 32-bit counter's largest value as well.
C10_LiteralAcceptsAnyLength ==
    op \in LiteralOps =>
        /\ res.ok <=> (\A i \in DOMAIN octets : octets[i].byte # Ch.NUL)
        /\ Literal_verify(octets) <=> res.ok
        /\ octets = <<>> => res.ok
        /\ res.ok => res.val.inner = octets

C10_Witness ==
    /\ op = "Literal::try_from(&[u8])"
    /\ ExceedsU32(OctetLen(octets))
    /\ Len(octets) = 2
    /\ res.ok

(***************************************************************************)
(* The COMPRESS extension (extensions/compress.rs) over nom's streaming     *)
(* combinators.  A parser returns Ok (remaining, value), Incomplete         *)
(* (needed) or Error (the input it failed at, nom's error kind).            *)
(***************************************************************************)
MaxTrail == 2

ParseOk(rem, val) == [kind |-> "Ok", rem |-> rem, val |-> val]
Incomplete(needed) == [kind |-> "Incomplete", needed |-> needed]
ParseError(at, code) == [kind |-> "Error", at |-> at, code |-> code]

Min(a, b) == IF a <= b THEN a ELSE b

\* "COMPRESS " and "DEFLATE"
COMPRESS_SP == <<67, 79, 77, 80, 82, 69, 83, 83, 32>>
DEFLATE == <<68, 69, 70, 76, 65, 84, 69>>
COMPRESS == <<67, 79, 77, 80, 82, 69, 83, 83>>
CRLF == <<Ch.CR, Ch.LF>>

\* nom: lowercase_byte, ASCII only.
lowercase_byte(c) == IF c >= 65 /\ c <= 90 THEN c + 32 ELSE c

\* nom::bytes::streaming::tag_no_case in its complete flavour: too short an
\* input is an error.
tag_no_case_complete(tag, i) ==
    IF Len(i) >= Len(tag)
       /\ \A k \in 1..Len(tag) : lowercase_byte(i[k]) = lowercase_byte(tag[k])
    THEN ParseOk(SubSeq(i, Len(tag) + 1, Len(i)), SubSeq(i, 1, Len(tag)))
    ELSE ParseError(i, "Tag")

\* nom::bytes::streaming::tag_no_case
tag_no_case(tag, i) ==
    IF \E k \in 1..Min(Len(i), Len(tag)) : lowercase_byte(i[k]) # lowercase_byte(tag[k])
    THEN ParseError(i, "Tag")
    ELSE IF Len(i) < Len(tag) THEN Incomplete(Len(tag) - Len(i))
    ELSE ParseOk(SubSeq(i, Len(tag) + 1, Len(i)), SubSeq(i, 1, Len(tag)))

\* nom::bytes::streaming::tag
tag(t, i) ==
    IF \E k \in 1..Min(Len(i), Len(t)) : i[k] # t[k]
    THEN ParseError(i, "Tag")
    ELSE IF Len(i) < Len(t) THEN Incomplete(Len(t) - Len(i))
    ELSE ParseOk(SubSeq(i, Len(t) + 1, Len(i)), SubSeq(i, 1, Len(t)))

\* The algorithm matched with its case as written.
algorithm_case_sensitive(i) ==
    LET r == tag(DEFLATE, i)
    IN  IF r.kind = "Ok" THEN ParseOk(r.rem, "Deflate") ELSE r

\* algorithm = "DEFLATE"
algorithm(i) ==
    LET r == tag_no_case(DEFLATE, i)
    IN  IF r.kind = "Ok" THEN ParseOk(r.rem, "Deflate") ELSE r

\* The keyword matched on a complete buffer: too short an input fails.
compress_complete(i) ==
    LET keyword == tag_no_case_complete(COMPRESS_SP, i)
    IN  IF keyword.kind # "Ok" THEN keyword
        ELSE LET a == algorithm(keyword.rem)
             IN  IF a.kind = "Ok"
                 THEN ParseOk(a.rem, [type |-> "Compress", algorithm |-> a.val])
                 ELSE a

\* compress = "COMPRESS" SP algorithm
compress(i) ==
    LET keyword == tag_no_case(COMPRESS_SP, i)
    IN  IF keyword.kind # "Ok" THEN keyword
        ELSE LET a == algorithm(keyword.rem)
             IN  IF a.kind = "Ok"
                 THEN ParseOk(a.rem, [type |-> "Compress", algorithm |-> a.val])
                 ELSE a

\* The algorithm written in lower case.
CompressionAlgorithm_encode_lowercase(a) == [k \in DOMAIN DEFLATE |-> lowercase_byte(DEFLATE[k])]

\* impl Encoder for CompressionAlgorithm
CompressionAlgorithm_encode(a) == DEFLATE

(***************************************************************************)
(* command = tag SP command-body CRLF, with the COMPRESS arm of the body,   *)
(* and its encoder.                                                         *)
(***************************************************************************)
\* nom::bytes::streaming::take_while1 over the characters of a tag.
tag_imap(i) ==
    LET stops == {k \in DOMAIN i : ~(is_astring_char(i[k]) /\ i[k] # Ch.PLUS)}
    IN  IF stops = {} THEN Incomplete(1)
        ELSE LET first == CHOOSE k \in stops : \A j \in stops : k <= j
             IN  IF first = 1 THEN ParseError(i, "TakeWhile1")
                 ELSE ParseOk(SubSeq(i, first, Len(i)),
                              [type |-> "Tag", cow |-> "Borrowed",
                               inner |-> SubSeq(i, 1, first - 1)])

command(i) ==
    LET t == tag_imap(i)
    IN  IF t.kind # "Ok" THEN t
        ELSE LET sp == tag(<<Ch.SP>>, t.rem)
             IN  IF sp.kind # "Ok" THEN sp
                 ELSE LET body == compress(sp.rem)
                      IN  IF body.kind # "Ok" THEN body
                          ELSE LET end == tag(CRLF, body.rem)
                               IN  IF end.kind # "Ok" THEN end
                                   ELSE ParseOk(end.rem,
                                                [type |-> "Command", tag |-> t.val,
                                                 body |-> body.val])

CommandBody_encode(body) == COMPRESS \o <<Ch.SP>> \o CompressionAlgorithm_encode(body.algorithm)

Command_encode(cmd) == cmd.tag.inner \o <<Ch.SP>> \o CommandBody_encode(cmd.body) \o CRLF

(***************************************************************************)
(* The parsers as operations.  The inputs are the production in several    *)
(* letter cases, its one-byte deviations, their prefixes and their          *)
(* extensions by trailing bytes, as a body and as a whole command line.     *)
(***************************************************************************)
Take(s, n) == SubSeq(s, 1, n)
Prefixes(s) == {Take(s, n) : n \in 0..Len(s)}

Production == COMPRESS_SP \o DEFLATE

Cases == {"upper", "lower", "odd", "even"}
Cased(s, c) ==
    [k \in DOMAIN s |->
        IF c = "lower" \/ (c = "odd" /\ k % 2 = 1) \/ (c = "even" /\ k % 2 = 0)
        THEN lowercase_byte(s[k])
        ELSE s[k]]

WellFormedInputs == {Cased(Production, c) : c \in Cases}

\* b itself, b with one byte replaced, one byte dropped, or one SP inserted.
Variants(b) ==
    {b} \cup {[b EXCEPT ![k] = x] : k \in DOMAIN b, x \in {Ch.SP, 88}}
        \cup {SubSeq(b, 1, k - 1) \o SubSeq(b, k + 1, Len(b)) : k \in DOMAIN b}
        \cup {SubSeq(b, 1, k) \o <<Ch.SP>> \o SubSeq(b, k + 1, Len(b)) : k \in 0..Len(b)}

TrailBytes == {Ch.QMARK, Ch.CR, Ch.LF, Ch.SP, Ch.A}
Trails == SeqsUpTo(TrailBytes, MaxTrail)

Extended(S) == UNION {Prefixes(v) \cup {v \o t : t \in Trails} : v \in S}

CompressInputs == Extended(UNION {Variants(b) : b \in WellFormedInputs})

Lines ==
    {<<Ch.A>> \o sep \o b \o end :
        sep \in {<<Ch.SP>>, <<Ch.SP, Ch.SP>>}, b \in WellFormedInputs, end \in {CRLF, <<Ch.LF>>}}
CommandInputs == Extended(Lines)

Inputs == CompressInputs \cup CommandInputs

InitCompress ==
    /\ op = "init"
    /\ input \in Inputs
    /\ text = <<>>
    /\ octets = <<>>
    /\ greeting = Idle
    /\ res = NoResult
    /\ out = Idle
    /\ store = {}

Parsed(name, r) ==
    /\ op = "init"
    /\ op' = name
    /\ res' = r
    /\ UNCHANGED <<text, octets, input, greeting, out, store>>

ParseAlgorithm == Parsed("algorithm", algorithm(input))
ParseCompress == Parsed("compress", compress(input))
ParseCommand == Parsed("command", command(input))

\* On Incomplete the caller reads one more byte and parses the longer buffer.
FeedMore(name, fed, result) ==
    /\ op \in {name, fed}
    /\ res.kind = "Incomplete"
    /\ \E b \in 0..127 :
        /\ Append(input, b) \in Inputs
        /\ input' = Append(input, b)
    /\ res' = result
    /\ op' = fed
    /\ UNCHANGED <<text, octets, greeting, out, store>>

FeedAlgorithm == FeedMore("algorithm", "algorithm (fed)", algorithm(input'))
FeedCompress == FeedMore("compress", "compress (fed)", compress(input'))
FeedCommand == FeedMore("command", "command (fed)", command(input'))

\* The parsed command is encoded (kat_inverse_command).
EncodeCommand ==
    /\ op \in {"command", "command (fed)"}
    /\ res.kind = "Ok"
    /\ op' = "Command::encode"
    /\ out' = Command_encode(res.val)
    /\ UNCHANGED <<text, octets, input, greeting, res, store>>

NextCompress ==
    \/ ParseAlgorithm \/ ParseCompress \/ ParseCommand
    \/ FeedAlgorithm \/ FeedCompress \/ FeedCommand
    \/ EncodeCommand

SpecCompress == InitCompress /\ [][NextCompress]_vars

(***************************************************************************)
(* Properties of the COMPRESS parser, checked under SpecCompress.          *)
(***************************************************************************)
\* "compress deflate", and a byte being a letter case of a lower-case byte.
compress_deflate ==
    <<99, 111, 109, 112, 114, 101, 115, 115, 32, 100, 101, 102, 108, 97, 116, 101>>
IsCaseOf(b, l) == b = l \/ (l >= 97 /\ l <= 122 /\ b = l - 32)

\* The first Len(compress_deflate) bytes are the production in some letter case.
StartsWithProduction(i) ==
    /\ Len(i) >= Len(compress_deflate)
    /\ \A k \in DOMAIN compress_deflate : IsCaseOf(i[k], compress_deflate[k])
\* One of the available bytes is not the production's byte at its place.
Deviates(i) ==
    \E k \in 1..Min(Len(i), Len(compress_deflate)) : ~IsCaseOf(i[k], compress_deflate[k])
\* A proper prefix (the empty one included) of the production in some letter case.
ProperPrefixOfProduction(i) == Len(i) < Len(compress_deflate) /\ ~Deviates(i)

CompressDeflate == [type |-> "Compress", algorithm |-> "Deflate"]
CompressOps == {"compress", "compress (fed)"}

\* C6: the compress parser accepts exactly COMPRESS, one SP and DEFLATE in any
\* ASCII letter case and then returns Compress{Deflate} with all bytes after the
\* algorithm as remaining; when an available byte deviates (a misspelled
\* keyword or algorithm, a second space) it returns a parse failure, no value.
C6_CompressAcceptsExactlyProduction ==
    op \in CompressOps =>
        /\ StartsWithProduction(input) =>
            res = ParseOk(SubSeq(input, Len(compress_deflate) + 1, Len(input)), CompressDeflate)
        /\ res.kind = "Ok" => StartsWithProduction(input)
        /\ Deviates(input) => res.kind = "Error"
        /\ res.kind = "Error" => Deviates(input)

\* "compress deflate " leaves " " (test_parse_compress).
C6_Witness ==
    /\ op = "compress"
    /\ input = Append(compress_deflate, Ch.SP)
    /\ res = ParseOk(<<Ch.SP>>, CompressDeflate)

\* "A COMPRESS DEFLATE" CRLF
CommandLine == <<Ch.A, Ch.SP>> \o Production \o CRLF
CommandA ==
    [type |-> "Command", tag |-> Tag_try_from_str(<<Ch.A>>).val, body |-> CompressDeflate]
StartsWithCommandLine(i) ==
    Len(i) >= Len(CommandLine) /\ Take(i, Len(CommandLine)) = CommandLine

\* C7: parsing "A COMPRESS DEFLATE" CRLF followed by any trailing bytes t returns
\* the command with tag A and remaining exactly t; encoding the parsed command
\* yields exactly the consumed bytes, which parse again to the same command
\* with nothing remaining.
C7_CommandKeepsTrailingAndRoundTrips ==
    /\ (op \in {"command", "command (fed)"} /\ StartsWithCommandLine(input)) =>
            res = ParseOk(SubSeq(input, Len(CommandLine) + 1, Len(input)), CommandA)
    /\ (op = "Command::encode" /\ StartsWithCommandLine(input)) =>
            /\ res = ParseOk(SubSeq(input, Len(CommandLine) + 1, Len(input)), CommandA)
            /\ out = CommandLine
            /\ out \o res.rem = input
            /\ command(out) = ParseOk(<<>>, res.val)

\* "A COMPRESS DEFLATE\r\n?" leaves "?" (test_kat_inverse_body_compress).
C7_Witness ==
    /\ op = "Command::encode"
    /\ input = Append(CommandLine, Ch.QMARK)
    /\ res.rem = <<Ch.QMARK>>
    /\ out = CommandLine

\* C8: fed a proper prefix of the production (in any letter case, the empty
\* prefix included) the compress parser returns Incomplete, never a value nor
\* a failure; once the rest has been fed it returns what it returns for the
\* whole input at once: nothing remaining and Compress{Deflate}.
C8_ProperPrefixIsIncomplete ==
    op \in CompressOps =>
        /\ ProperPrefixOfProduction(input) =>
            /\ res.kind = "Incomplete"
            /\ res.needed >= 1
        /\ (StartsWithProduction(input) /\ Len(input) = Len(compress_deflate)) =>
            res = ParseOk(<<>>, CompressDeflate)

C8_Witness ==
    /\ op = "compress (fed)"
    /\ input = Cased(Production, "odd")
    /\ res = ParseOk(<<>>, CompressDeflate)

(***************************************************************************)
(* The greeting: Greeting{kind, code, text}, written as                     *)
(*   "*" SP (OK / PREAUTH / BYE) SP ["[" code "]" SP] text CRLF             *)
(* and parsed by the grammar of the same line (response.rs), as the fuzz    *)
(* target greeting_to_bytes_and_back encodes and decodes it.                *)
(***************************************************************************)
MaxParts == 3

STAR_SP == <<42, 32>>
KindKeyword == [Ok |-> <<79, 75>>, PreAuth |-> <<80, 82, 69, 65, 85, 84, 72>>, Bye |-> <<66, 89, 69>>]
CodeKeyword == [Alert |-> <<65, 76, 69, 82, 84>>, Parse |-> <<80, 65, 82, 83, 69>>]
Kinds == {"Ok", "PreAuth", "Bye"}
Codes == {"Alert", "Parse"}

Code_encode(code) == <<Ch.LBRACKET>> \o CodeKeyword[code] \o <<Ch.RBRACKET>>

Text_encode(t) == Utf8Bytes(t.inner)

Greeting_encode(g) ==
    STAR_SP \o KindKeyword[g.kind] \o <<Ch.SP>>
        \o (IF g.code = "None" THEN <<>> ELSE Code_encode(g.code) \o <<Ch.SP>>)
        \o Text_encode(g.text) \o CRLF

\* nom::branch::alt over keywords: the first that does not fail with Error.
RECURSIVE alt_keywords(_, _, _)
alt_keywords(names, table, i) ==
    IF names = <<>> THEN ParseError(i, "Alt")
    ELSE LET r == tag_no_case(table[Head(names)], i)
         IN  IF r.kind = "Ok" THEN ParseOk(r.rem, Head(names))
             ELSE IF r.kind = "Incomplete" THEN r
             ELSE alt_keywords(Tail(names), table, i)

\* "[" resp-text-code "]" SP
bracketed_code(i) ==
    LET open == tag(<<Ch.LBRACKET>>, i)
    IN  IF open.kind # "Ok" THEN open
        ELSE LET code == alt_keywords(<<"Alert", "Parse">>, CodeKeyword, open.rem)
             IN  IF code.kind # "Ok" THEN code
                 ELSE LET close == tag(<<Ch.RBRACKET, Ch.SP>>, code.rem)
                      IN  IF close.kind # "Ok" THEN close
                          ELSE ParseOk(close.rem, code.val)

\* text = 1*TEXT-CHAR (nom::bytes::streaming::take_while1)
text_parser(i) ==
    LET stops == {k \in DOMAIN i : ~is_text_char(i[k])}
    IN  IF stops = {} THEN Incomplete(1)
        ELSE LET first == CHOOSE k \in stops : \A j \in stops : k <= j
             IN  IF first = 1 THEN ParseError(i, "TakeWhile1")
                 ELSE ParseOk(SubSeq(i, first, Len(i)),
                              [type |-> "Text", cow |-> "Borrowed",
                               inner |-> SubSeq(i, 1, first - 1)])

\* resp-text = ["[" resp-text-code "]" SP] text
resp_text(i) ==
    LET code == bracketed_code(i)
        rest == IF code.kind = "Ok" THEN code.rem ELSE i
        t == text_parser(rest)
    IN  IF code.kind = "Incomplete" THEN code
        ELSE IF t.kind # "Ok" THEN t
        ELSE ParseOk(t.rem, [code |-> IF code.kind = "Ok" THEN code.val ELSE "None",
                             text |-> t.val])

\* greeting = "*" SP (resp-cond-auth / resp-cond-bye) CRLF
greeting_parser(i) ==
    LET star == tag(STAR_SP, i)
    IN  IF star.kind # "Ok" THEN star
        ELSE LET kind == alt_keywords(<<"Ok", "PreAuth", "Bye">>, KindKeyword, star.rem)
             IN  IF kind.kind # "Ok" THEN kind
                 ELSE LET sp == tag(<<Ch.SP>>, kind.rem)
                      IN  IF sp.kind # "Ok" THEN sp
                          ELSE LET rt == resp_text(sp.rem)
                               IN  IF rt.kind # "Ok" THEN rt
                                   ELSE LET end == tag(CRLF, rt.rem)
                                        IN  IF end.kind # "Ok" THEN end
                                            ELSE ParseOk(end.rem,
                                                         [kind |-> kind.val,
                                                          code |-> rt.val.code,
                                                          text |-> rt.val.text])

\* derive(PartialEq): a Cow carrier is compared by content.
Greeting_eq(a, b) == a.kind = b.kind /\ a.code = b.code /\ a.text.inner = b.text.inner

\* The texts of the greetings: up to MaxParts of these parts, concatenated.
TextParts == {Code_encode("Alert"), <<Ch.LBRACKET>>, <<Ch.RBRACKET>>, <<Ch.SP>>, <<Ch.A>>}
RECURSIVE Concat(_)
Concat(ss) == IF ss = <<>> THEN <<>> ELSE Head(ss) \o Concat(Tail(ss))
GreetingTexts == {t \in {Concat(ps) : ps \in SeqsUpTo(TextParts, MaxParts)} : Text_verify(t)}

\* The well-formed greetings: any kind, any code or none, any valid Text.
Greetings ==
    {[kind |-> k, code |-> c, text |-> Text_try_from_String(t).val] :
        k \in Kinds, c \in Codes \cup {"None"}, t \in GreetingTexts}

InitGreeting ==
    /\ op = "init"
    /\ greeting \in Greetings
    /\ text = <<>>
    /\ octets = <<>>
    /\ input = Idle
    /\ res = NoResult
    /\ out = Idle
    /\ store = {}

\* let buffer = test.encode_detached().unwrap();
GreetingEncode ==
    /\ op = "init"
    /\ op' = "Greeting::encode_detached"
    /\ out' = Greeting_encode(greeting)
    /\ UNCHANGED <<text, octets, input, greeting, res, store>>

\* let (rem, parsed) = Greeting::decode(&buffer).unwrap();
GreetingDecode ==
    /\ op = "Greeting::encode_detached"
    /\ op' = "Greeting::decode"
    /\ res' = greeting_parser(out)
    /\ UNCHANGED <<text, octets, input, greeting, out, store>>

NextGreeting == GreetingEncode \/ GreetingDecode

SpecGreeting == InitGreeting /\ [][NextGreeting]_vars

\* C2: for every well-formed Greeting, decoding the bytes produced by encoding
\* it succeeds, leaves nothing remaining and yields a value equal to it.
C2_GreetingRoundTrip ==
    op = "Greeting::decode" =>
        /\ res.kind = "Ok"
        /\ res.rem = <<>>
        /\ Greeting_eq(res.val, greeting)

(***************************************************************************)
(* The values a program holds.  Constructions follow one another, each on  *)
(* an input of its own; every value a constructor returned is kept in      *)
(* store.  No operation of core.rs changes a value after its construction: *)
(* the carriers are private fields and the only access is the read-only    *)
(* Deref.                                                                  *)
(***************************************************************************)
MaxStore == 2

StoreTexts == {<<>>, <<Ch.A>>, <<Ch.NUL>>, <<Ch.CR>>, <<Ch.A, Ch.NUL>>}

StoreOctets == {AsOctets(Utf8Bytes(t)) : t \in StoreTexts}

Cows == {"Borrowed", "Owned"}

InitStore ==
    /\ op = "init"
    /\ text = <<>>
    /\ octets = <<>>
    /\ input = Idle
    /\ greeting = Idle
    /\ res = NoResult
    /\ out = Idle
    /\ store = {}

\* let r = name(value); on Ok the program holds the value from then on.
Construct(name, t, o, r) ==
    /\ op' = name
    /\ text' = t
    /\ octets' = o
    /\ res' = r
    /\ store' = IF r.ok THEN store \cup {r.val} ELSE store
    /\ Cardinality(store') <= MaxStore
    /\ out' = Idle
    /\ UNCHANGED <<input, greeting>>

ConstructLiteralFromSlice ==
    \E o \in StoreOctets :
        Construct("Literal::try_from(&[u8])", <<>>, o, Literal_try_from_slice(o))

ConstructLiteralFromVec ==
    \E o \in StoreOctets :
        Construct("Literal::try_from(Vec<u8>)", <<>>, o, Literal_try_from_Vec(o))

\* The parser's path: new_unchecked is unsafe, its caller has verified the octets.
ConstructLiteralUnchecked ==
    \E o \in StoreOctets, cow \in Cows :
        /\ Literal_verify(o)
        /\ Construct("Literal::new_unchecked", <<>>, o, Ok(Literal_new_unchecked(cow, o)))

ConstructIStringFromStr ==
    \E t \in StoreTexts :
        Construct("IString::try_from(&str)", t, <<>>, IString_try_from_str(t))

ConstructIStringFromString ==
    \E t \in StoreTexts :
        Construct("IString::try_from(String)", t, <<>>, IString_try_from_String(t))

ConstructAStringFromStr ==
    \E t \in StoreTexts :
        Construct("AString::try_from(&str)", t, <<>>, AString_try_from_str(t))

ConstructAStringFromString ==
    \E t \in StoreTexts :
        Construct("AString::try_from(String)", t, <<>>, AString_try_from_String(t))

ConstructNonEmptyVec ==
    \E t \in StoreTexts :
        Construct("NonEmptyVec::try_from(Vec<T>)", t, <<>>, NonEmptyVec_try_from(t))

\* The parser's path: new_unchecked is unsafe, its caller has parsed at least one element.
ConstructNonEmptyVecUnchecked ==
    \E t \in StoreTexts :
        /\ t # <<>>
        /\ Construct("NonEmptyVec::new_unchecked", t, <<>>, Ok(NonEmptyVec_new_unchecked(t)))

\* A read through Deref: the carrier is handed out, the value stays as it is.
Read(name, carrier) ==
    /\ op' = name
    /\ text' = <<>>
    /\ octets' = <<>>
    /\ res' = NoResult
    /\ out' = carrier
    /\ UNCHANGED <<input, greeting, store>>

LiteralDeref ==
    \E v \in store :
        /\ v.type = "Literal"
        /\ Read("Literal::deref", Literal_deref(v))

NonEmptyVecDeref ==
    \E v \in store :
        /\ v.type = "NonEmptyVec"
        /\ Read("NonEmptyVec::deref", NonEmptyVec_deref(v))

NextStore ==
    \/ ConstructLiteralFromSlice \/ ConstructLiteralFromVec
    \/ ConstructLiteralUnchecked
    \/ ConstructIStringFromStr \/ ConstructIStringFromString
    \/ ConstructAStringFromStr \/ ConstructAStringFromString
    \/ ConstructNonEmptyVec \/ ConstructNonEmptyVecUnchecked
    \/ LiteralDeref \/ NonEmptyVecDeref

SpecStore == InitStore /\ [][NextStore]_vars

(***************************************************************************)
(* Claims about the values held.                                           *)
(***************************************************************************)
\* The Literals a value consists of: itself, or the literal form of the
\* IString it is or holds.
LiteralsIn(v) ==
    IF v.type = "Literal" THEN {v}
    ELSE IF v.type = "IString" /\ v.variant = "Literal" THEN {v.value}
    ELSE IF v.type = "AString" /\ v.variant = "String" /\ v.value.variant = "Literal"
    THEN {v.value.value}
    ELSE {}

HasNul(runs) == \E i \in 1..Len(runs) : runs[i].byte = 0 /\ (runs[i].hi > 0 \/ runs[i].lo > 0)

StringOps ==
    {"IString::try_from(&str)", "IString::try_from(String)",
     "AString::try_from(&str)", "AString::try_from(String)"}

\* C11: whatever constructions came before, no Literal the program holds,
\* be it a Literal of its own or the literal form inside an IString or an
\* AString, has the octet 0x00 in its carrier; and IString::try_from and
\* AString::try_from reject a text that contains NUL.
C11_LiteralHasNoNul ==
    /\ \A v \in store : \A l \in LiteralsIn(v) : ~HasNul(l.inner)
    /\ (op \in StringOps /\ (\E i \in 1..Len(text) : text[i] = 0)) => ~res.ok

\* Two literals are held, one of them the fallback of an AString, and an
\* IString has just rejected a text with NUL.
C11_Witness ==
    /\ op = "IString::try_from(String)"
    /\ text = <<Ch.A, Ch.NUL>>
    /\ ~res.ok
    /\ \E v \in store : v.type = "Literal" /\ v.inner # <<>>
    /\ \E v \in store : v.type = "AString" /\ LiteralsIn(v) # {}

NonEmptyVecs == {v \in store : v.type = "NonEmptyVec"}

\* C12: NonEmptyVec::try_from fails on the empty vector and otherwise
\* succeeds holding the elements of the vector in their order; a read through
\* Deref hands out the elements of a held value; and whatever constructions
\* and reads came before, every NonEmptyVec the program holds has at least
\* one element.
C12_NonEmptyVecNeverEmpty ==
    /\ \A v \in NonEmptyVecs : Len(v.inner) >= 1
    /\ op = "NonEmptyVec::try_from(Vec<T>)" =>
           IF text = <<>> THEN ~res.ok
           ELSE res.ok /\ res.val.inner = text /\ res.val \in store
    /\ op = "NonEmptyVec::deref" =>
           Len(out) >= 1 /\ \E v \in NonEmptyVecs : v.inner = out

\* Two NonEmptyVecs are held, one of them of two elements, and the empty
\* vector has just been rejected.
C12_Witness ==
    /\ op = "NonEmptyVec::try_from(Vec<T>)"
    /\ text = <<>>
    /\ ~res.ok
    /\ \E v \in NonEmptyVecs : v.inner = <<Ch.A, Ch.NUL>>
    /\ Cardinality(NonEmptyVecs) = 2

(***************************************************************************)
(* Tag::random.  The outcome of the random number generator is any buffer  *)
(* of RandomTagLen samples of Alphanumeric; the buffers enumerated are     *)
(* those made of one sample repeated and then a second one repeated, which *)
(* puts every sample at every position.                                    *)
(***************************************************************************)
RandomBuffers ==
    {[i \in 1..RandomTagLen |-> IF i <= k THEN a ELSE b] :
        a \in Alphanumeric, b \in Alphanumeric, k \in 1..RandomTagLen}

InitTag ==
    /\ op = "init"
    /\ text = <<>>
    /\ octets = <<>>
    /\ input = Idle
    /\ greeting = Idle
    /\ res = NoResult
    /\ out = Idle
    /\ store = {}

\* let tag = Tag::random();
TagRandom ==
    /\ op = "init"
    /\ \E buffer \in RandomBuffers :
           /\ op' = "Tag::random"
           /\ res' = Tag_random(buffer)
    /\ UNCHANGED <<text, octets, input, greeting, out, store>>

\* Tag::verify(tag.inner()) on the tag just drawn.
TagVerify ==
    /\ op = "Tag::random"
    /\ op' = "Tag::verify"
    /\ out' = Tag_verify(res.inner)
    /\ UNCHANGED <<text, octets, input, greeting, res, store>>

NextTag == TagRandom \/ TagVerify

SpecTag == InitTag /\ [][NextTag]_vars

IsAsciiLetter(c) == (c >= 65 /\ c <= 90) \/ (c >= 97 /\ c <= 122)

IsAsciiDigit(c) == c >= 48 /\ c <= 57

\* C13: the tag Tag::random returns has exactly 8 characters, each of them
\* an ASCII letter or digit, and Tag::verify holds of it: it is not empty
\* and each of its bytes is an ASTRING-CHAR other than '+'.
C13_RandomTagIsValid ==
    /\ op \in {"Tag::random", "Tag::verify"} =>
           /\ res.type = "Tag"
           /\ Len(res.inner) = 8
           /\ \A i \in 1..Len(res.inner) :
                  /\ IsAsciiLetter(res.inner[i]) \/ IsAsciiDigit(res.inner[i])
                  /\ is_astring_char(res.inner[i])
                  /\ res.inner[i] # Ch.PLUS
    /\ op = "Tag::verify" => out = TRUE

\* The tag "zzzz0000" has been drawn and verified.
C13_Witness ==
    /\ op = "Tag::verify"
    /\ res.inner = <<122, 122, 122, 122, 48, 48, 48, 48>>
    /\ out = TRUE

(***************************************************************************)
(* extensions/sort.rs: the SORT=DISPLAY algorithm name.  A SortAlgorithm   *)
(* is made from an Atom and written with Display.                          *)
(***************************************************************************)
\* str::to_lowercase on the characters below U+0100: A-Z and the Latin-1
\* capitals (all of U+00C0..U+00DE but the multiplication sign) move to
\* their small letters, every other character stays.
to_lowercase(s) ==
    [i \in 1..Len(s) |->
        IF (s[i] >= 65 /\ s[i] <= 90) \/ (s[i] >= 192 /\ s[i] <= 222 /\ s[i] # 215)
        THEN s[i] + 32
        ELSE s[i]]

\* "display"
display == <<100, 105, 115, 112, 108, 97, 121>>

\* "DISPLAY"
DISPLAY == <<68, 73, 83, 80, 76, 65, 89>>

\* Matches the atom as it is, without lowering it.
SortAlgorithm_from_case_sensitive(value) ==
    IF value.inner = display
    THEN [type |-> "SortAlgorithm", variant |-> "Display"]
    ELSE [type |-> "SortAlgorithm", variant |-> "Other",
          value |-> [type |-> "SortAlgorithmOther", atom |-> value]]

SortAlgorithm_from(value) ==
    IF to_lowercase(value.inner) = display
    THEN [type |-> "SortAlgorithm", variant |-> "Display"]
    ELSE [type |-> "SortAlgorithm", variant |-> "Other",
          value |-> [type |-> "SortAlgorithmOther", atom |-> value]]

SortAlgorithmOther_as_ref(self) == self.atom.inner

SortAlgorithm_fmt(self) ==
    IF self.variant = "Display" THEN DISPLAY ELSE SortAlgorithmOther_as_ref(self.value)

\* derive(PartialEq): the same variant and, for Other, atoms of equal content.
SortAlgorithm_eq(a, b) ==
    /\ a.variant = b.variant
    /\ a.variant = "Other" => a.value.atom.inner = b.value.atom.inner

\* The atoms drawn: "display" in each of its letter cases, what differs from
\* it in one place, and a few others; texts that are no atom are drawn too.
LetterCases(s) ==
    {[i \in 1..Len(s) |-> IF i \in U THEN s[i] - 32 ELSE s[i]] : U \in SUBSET (1..Len(s))}

SortTexts ==
    LetterCases(display)
        \cup UNION {Variants(b) : b \in {display, DISPLAY, Cased(DISPLAY, "odd")}}
        \cup {b \o <<t>> : b \in {display, DISPLAY}, t \in {83, 115, 49}}
        \cup {<<>>, <<Ch.A>>, <<100>>, <<Ch.SUPER1>>}

InitSort ==
    /\ op = "init"
    /\ text \in SortTexts
    /\ octets = <<>>
    /\ input = Idle
    /\ greeting = Idle
    /\ res = NoResult
    /\ out = Idle
    /\ store = {}

\* SortAlgorithm::from(Atom::try_from(text)?), the atom borrowed or owned.
SortAlgorithmFrom ==
    /\ op = "init"
    /\ \E atom \in {Atom_try_from_str(text), Atom_try_from_String(text)} :
           /\ atom.ok
           /\ op' = "SortAlgorithm::from(Atom)"
           /\ res' = SortAlgorithm_from(atom.val)
    /\ UNCHANGED <<text, octets, input, greeting, out, store>>

\* algorithm.to_string()
SortAlgorithmFmt ==
    /\ op = "SortAlgorithm::from(Atom)"
    /\ op' = "SortAlgorithm::fmt"
    /\ out' = SortAlgorithm_fmt(res)
    /\ UNCHANGED <<text, octets, input, greeting, res, store>>

\* SortAlgorithm::from(Atom::try_from(formatted)?): the value made of the
\* formatted text is kept next to the first one.
SortAlgorithmFromFormatted ==
    /\ op = "SortAlgorithm::fmt"
    /\ op' = "SortAlgorithm::from(formatted)"
    /\ LET atom == Atom_try_from_String(out)
       IN  res' = [first |-> res,
                   again |-> IF atom.ok THEN Ok(SortAlgorithm_from(atom.val)) ELSE Err(Unit)]
    /\ UNCHANGED <<text, octets, input, greeting, out, store>>

NextSort == SortAlgorithmFrom \/ SortAlgorithmFmt \/ SortAlgorithmFromFormatted

SpecSort == InitSort /\ [][NextSort]_vars

\* text is "display" in some letter case.
IsDisplayIgnoreCase(t) ==
    /\ Len(t) = 7
    /\ \A k \in 1..7 : IsCaseOf(t[k], display[k])

SortOps == {"SortAlgorithm::from(Atom)", "SortAlgorithm::fmt"}

\* C14: SortAlgorithm::from returns Display exactly when the atom is
\* "display" in some ASCII letter case, and otherwise Other holding the atom
\* as it was, so that no Other holds a letter case of "display"; the value is
\* written as DISPLAY when it is Display and as the atom's text when it is
\* Other; and SortAlgorithm::from of the written text is equal to the value.
C14_SortAlgorithmCanonical ==
    /\ op \in SortOps =>
           /\ res.variant = "Display" <=> IsDisplayIgnoreCase(text)
           /\ res.variant = "Other" =>
                  /\ res.value.atom.inner = text
                  /\ ~IsDisplayIgnoreCase(res.value.atom.inner)
    /\ op = "SortAlgorithm::fmt" =>
           out = IF res.variant = "Display" THEN <<68, 73, 83, 80, 76, 65, 89>> ELSE text
    /\ op = "SortAlgorithm::from(formatted)" =>
           /\ res.again.ok
           /\ SortAlgorithm_eq(res.again.val, res.first)

\* "DiSpLaY" became Display, was written as DISPLAY and read back as Display.
C14_Witness ==
    /\ op = "SortAlgorithm::from(formatted)"
    /\ text = <<68, 105, 83, 112, 76, 97, 89>>
    /\ res.first.variant = "Display"
    /\ out = DISPLAY
    /\ res.again.ok
====
